---------------------------- MODULE Spec2Model ----------------------------
(***************************************************************************)
(* A model of the fitnesspass application layer:                           *)
(*   - the profile server actions (src/lib/actions/profile.ts),            *)
(*   - the AI tools (src/lib/ai/tools.ts),                                 *)
(*   - the response headers of next.config.ts.                             *)
(* SpecProfile runs invocations of the server actions concurrently, one    *)
(* step per remote effect; SpecTools runs the tools against a content      *)
(* store; SpecHeaders serves requests under the configured header rules.   *)
(***************************************************************************)
EXTENDS Integers, Sequences, FiniteSets, TLC

VARIABLES
    profiles,      \* content store: clerkId -> userProfile document (or NoDoc)
    hasOnboarded,  \* identity provider: clerkId -> publicMetadata.hasOnboarded
    pc,            \* invocation -> the await it is suspended at ("idle" if none)
    call,          \* invocation -> its action, session user and preferences
    eff,           \* invocation -> the external effects it has performed so far
    ret,           \* what the step just taken handed back to its caller (NoRet if nothing)
    store,         \* content store: the documents the AI tools query
    resp,          \* the response of the tool call just made (NoResp if none)
    served         \* the HTTP response just served (NoServed if none)

vars == <<profiles, hasOnboarded, pc, call, eff, ret, store, resp, served>>

profileVars == <<profiles, hasOnboarded, pc, call, eff, ret>>
toolVars == <<store, resp>>

(***************************************************************************)
(* JavaScript values: typeof, and for a number whether it is finite.       *)
(* A string is the sequence of its characters.                             *)
(***************************************************************************)
Undef == [t |-> "undefined", fin |-> FALSE, n |-> 0, s |-> <<>>]
Num(n) == [t |-> "number", fin |-> TRUE, n |-> n, s |-> <<>>]
NaN == [t |-> "number", fin |-> FALSE, n |-> 0, s |-> <<"N", "a", "N">>]
Infinity == [t |-> "number", fin |-> FALSE, n |-> 0, s |-> <<"I", "n", "f">>]
Str(s) == [t |-> "string", fin |-> FALSE, n |-> 0, s |-> s]

Whitespace == {" ", "\t"}

\* String.prototype.trim: strip leading and trailing whitespace
RECURSIVE TrimStart(_)
TrimStart(s) ==
    IF s # <<>> /\ Head(s) \in Whitespace THEN TrimStart(Tail(s)) ELSE s

RECURSIVE TrimEnd(_)
TrimEnd(s) ==
    IF s # <<>> /\ s[Len(s)] \in Whitespace
    THEN TrimEnd(SubSeq(s, 1, Len(s) - 1))
    ELSE s

Trim(s) == TrimEnd(TrimStart(s))

(***************************************************************************)
(* LocationData / ProfilePreferences                                       *)
(***************************************************************************)
NoLocation == [t |-> "undefined", lat |-> Undef, lng |-> Undef, address |-> Undef]
Location(lat, lng, address) ==
    [t |-> "object", lat |-> lat, lng |-> lng, address |-> address]

ProfilePreferences(location, searchRadius) ==
    [location |-> location, searchRadius |-> searchRadius]

isValidLocation(location) ==
    /\ location.t = "object"
    /\ location.lat.t = "number"
    /\ location.lng.t = "number"
    /\ location.address.t = "string"
    /\ Len(Trim(location.address.s)) > 0

isValidRadius_NoFiniteCheck(radius) ==
    radius.t = "number" /\ (radius.fin => radius.n >= 1)

isValidRadius(radius) ==
    radius.t = "number" /\ radius.fin /\ radius.n >= 1


(***************************************************************************)
(* The documents and sessions of the profile actions                       *)
(***************************************************************************)
UserIds == {"user_1"}
NoUser == ""

\* the invocations of server actions that may be in flight together
Procs == {"c1", "c2"}

NoDoc == [t |-> "none", clerkId |-> NoUser, location |-> NoLocation, searchRadius |-> Undef]

\* getOrCreateUserProfile: the document it creates for a user who has none
NewUserProfile(userId) ==
    [t |-> "userProfile", clerkId |-> userId, location |-> NoLocation, searchRadius |-> Undef]

getOrCreateUserProfile(userId) ==
    IF profiles[userId] = NoDoc
    THEN [profiles EXCEPT ![userId] = NewUserProfile(userId)]
    ELSE profiles

\* USER_PROFILE_WITH_PREFERENCES_QUERY with {clerkId}: the user's profile document
FetchUserProfile(clerkId) == profiles[clerkId]

\* the patch with the address stored as the validation reads it
PatchSet_TrimmedAddress(doc, location, searchRadius) ==
    [doc EXCEPT !.location = Location(location.lat, location.lng,
                                      Str(Trim(location.address.s))),
                !.searchRadius = searchRadius]

\* writeClient.patch(id).set({location: {lat, lng, address}, searchRadius})
PatchSet(doc, location, searchRadius) ==
    [doc EXCEPT !.location = Location(location.lat, location.lng, location.address),
                !.searchRadius = searchRadius]

(***************************************************************************)
(* Results handed back to the caller                                       *)
(***************************************************************************)
ProfileResult(success, error, message) ==
    [kind |-> "ProfileResult", success |-> success, error |-> error,
     message |-> message, location |-> NoLocation, searchRadius |-> Undef]

NullResult ==
    [kind |-> "null", success |-> FALSE, error |-> "", message |-> "",
     location |-> NoLocation, searchRadius |-> Undef]

PreferencesResult(location, searchRadius) ==
    [kind |-> "preferences", success |-> FALSE, error |-> "", message |-> "",
     location |-> location, searchRadius |-> searchRadius]

\* an exception that leaves the action uncaught
Exception(name) ==
    [kind |-> "exception", success |-> FALSE, error |-> name, message |-> "",
     location |-> NoLocation, searchRadius |-> Undef]

NoPreferences == ProfilePreferences(NoLocation, Undef)
NoCall == [action |-> "none", userId |-> NoUser, preferences |-> NoPreferences]
NoRet ==
    [t |-> "none", action |-> "none", userId |-> NoUser, preferences |-> NoPreferences,
     result |-> NullResult, eff |-> {}, threw |-> "none"]

\* what auth() can do: throw, or yield a session with or without a userId
AuthOutcomes ==
    {[ok |-> FALSE, userId |-> NoUser]}
        \cup {[ok |-> TRUE, userId |-> u] : u \in UserIds \cup {NoUser}}

\* the invocation hands `result` back and ends
Return(p, action, userId, preferences, result, effects, threw) ==
    /\ ret' = [t |-> "return", action |-> action, userId |-> userId,
               preferences |-> preferences, result |-> result, eff |-> effects,
               threw |-> threw]
    /\ pc' = [pc EXCEPT ![p] = "idle"]
    /\ call' = [call EXCEPT ![p] = NoCall]
    /\ eff' = [eff EXCEPT ![p] = {}]

\* the invocation is suspended at its next await
Await(p, next, effects) ==
    /\ pc' = [pc EXCEPT ![p] = next]
    /\ eff' = [eff EXCEPT ![p] = effects]
    /\ ret' = NoRet


(***************************************************************************)
(* completeOnboarding: one step per remote effect it awaits                *)
(***************************************************************************)
\* the catch block of completeOnboarding, rethrowing instead of converting
completeOnboarding_catch_Rethrow == Exception("Error")

\* catch (error): the result the caller gets for any exception thrown inside
completeOnboarding_catch ==
    ProfileResult(FALSE, "Failed to complete onboarding", "")

\* the entry of completeOnboarding with the preferences validated before the session
completeOnboarding_ValidateFirst(p, auth, preferences) ==
    LET action == "completeOnboarding"
        location == preferences.location
        searchRadius == preferences.searchRadius
    IN  /\ pc[p] = "idle"
        /\ UNCHANGED <<profiles, hasOnboarded, toolVars, served>>
        /\ IF ~auth.ok
           THEN /\ Return(p, action, NoUser, preferences, completeOnboarding_catch, {}, "auth")
           ELSE IF ~isValidLocation(location)
           THEN Return(p, action, auth.userId, preferences,
                       ProfileResult(FALSE, "Location is required", ""), {}, "none")
           ELSE IF ~isValidRadius(searchRadius)
           THEN Return(p, action, auth.userId, preferences,
                       ProfileResult(FALSE, "Search radius is required", ""), {}, "none")
           ELSE IF auth.userId = NoUser
           THEN Return(p, action, auth.userId, preferences,
                       ProfileResult(FALSE, "Unauthorized", ""), {}, "none")
           ELSE /\ Await(p, "getOrCreateUserProfile", {})
                /\ call' = [call EXCEPT ![p] =
                       [action |-> action, userId |-> auth.userId,
                        preferences |-> preferences]]

\* await auth(); the userId check; the validation of the preferences
completeOnboarding(p, auth, preferences) ==
    LET action == "completeOnboarding"
        location == preferences.location
        searchRadius == preferences.searchRadius
    IN  /\ pc[p] = "idle"
        /\ UNCHANGED <<profiles, hasOnboarded, toolVars, served>>
        /\ IF ~auth.ok
           THEN Return(p, action, NoUser, preferences, completeOnboarding_catch, {}, "auth")
           ELSE IF auth.userId = NoUser
           THEN Return(p, action, auth.userId, preferences,
                       ProfileResult(FALSE, "Unauthorized", ""), {}, "none")
           ELSE IF ~isValidLocation(location)
           THEN Return(p, action, auth.userId, preferences,
                       ProfileResult(FALSE, "Location is required", ""), {}, "none")
           ELSE IF ~isValidRadius(searchRadius)
           THEN Return(p, action, auth.userId, preferences,
                       ProfileResult(FALSE, "Search radius is required", ""), {}, "none")
           ELSE /\ Await(p, "getOrCreateUserProfile", {})
                /\ call' = [call EXCEPT ![p] =
                       [action |-> action, userId |-> auth.userId,
                        preferences |-> preferences]]

\* completeOnboarding with the Clerk metadata written before the profile is looked up
completeOnboarding_getOrCreateUserProfile_MetadataFirst(p) ==
    LET c == call[p]
    IN  /\ pc[p] = "getOrCreateUserProfile"
        /\ c.action = "completeOnboarding"
        /\ UNCHANGED <<store, resp, served>>
        /\ hasOnboarded' = [hasOnboarded EXCEPT ![c.userId] = TRUE]
        /\ \/ /\ UNCHANGED profiles
              /\ Return(p, c.action, c.userId, c.preferences, completeOnboarding_catch,
                        eff[p] \cup {"lookup", "metadata", "changed"},
                        "getOrCreateUserProfile")
           \/ /\ profiles' = getOrCreateUserProfile(c.userId)
              /\ Await(p, "patch", eff[p] \cup {"lookup", "metadata", "changed"})
              /\ UNCHANGED call

\* await getOrCreateUserProfile(userId)
completeOnboarding_getOrCreateUserProfile(p) ==
    LET c == call[p]
    IN  /\ pc[p] = "getOrCreateUserProfile"
        /\ c.action = "completeOnboarding"
        /\ UNCHANGED <<hasOnboarded, store, resp, served>>
        /\ \/ /\ UNCHANGED profiles      \* the lookup or the creation throws
              /\ Return(p, c.action, c.userId, c.preferences, completeOnboarding_catch,
                        eff[p] \cup {"lookup"}, "getOrCreateUserProfile")
           \/ /\ profiles' = getOrCreateUserProfile(c.userId)
              /\ Await(p, "patch",
                       eff[p] \cup {"lookup"}
                           \cup (IF profiles[c.userId] = NoDoc THEN {"create"} ELSE {}))
              /\ UNCHANGED call

\* the patch of completeOnboarding with a failed commit going unnoticed
completeOnboarding_patch_Unawaited(p) ==
    LET c == call[p]
        doc == PatchSet(profiles[c.userId], c.preferences.location,
                        c.preferences.searchRadius)
    IN  /\ pc[p] = "patch"
        /\ c.action = "completeOnboarding"
        /\ UNCHANGED <<hasOnboarded, call, store, resp, served>>
        /\ \/ /\ UNCHANGED profiles
              /\ Await(p, "updateUserMetadata", eff[p])
           \/ /\ profiles' = [profiles EXCEPT ![c.userId] = doc]
              /\ Await(p, "updateUserMetadata",
                       eff[p] \cup {"patch"}
                           \cup (IF doc # profiles[c.userId] THEN {"changed"} ELSE {}))

\* await writeClient.patch(userProfileId).set({...}).commit()
completeOnboarding_patch(p) ==
    LET c == call[p]
        doc == PatchSet(profiles[c.userId], c.preferences.location,
                        c.preferences.searchRadius)
    IN  /\ pc[p] = "patch"
        /\ c.action = "completeOnboarding"
        /\ UNCHANGED <<hasOnboarded, store, resp, served>>
        /\ \/ /\ UNCHANGED profiles      \* the commit throws: nothing is written
              /\ Return(p, c.action, c.userId, c.preferences, completeOnboarding_catch,
                        eff[p], "patch")
           \/ /\ profiles' = [profiles EXCEPT ![c.userId] = doc]
              /\ Await(p, "updateUserMetadata",
                       eff[p] \cup {"patch"}
                           \cup (IF doc # profiles[c.userId] THEN {"changed"} ELSE {}))
              /\ UNCHANGED call

\* await clerkClient(); await clerk.users.updateUserMetadata(userId, {hasOnboarded: true})
completeOnboarding_updateUserMetadata(p) ==
    LET c == call[p]
    IN  /\ pc[p] = "updateUserMetadata"
        /\ c.action = "completeOnboarding"
        /\ UNCHANGED <<profiles, store, resp, served>>
        /\ \/ /\ UNCHANGED hasOnboarded  \* clerkClient() or the update throws
              /\ Return(p, c.action, c.userId, c.preferences, completeOnboarding_catch,
                        eff[p], "updateUserMetadata")
           \/ /\ hasOnboarded' = [hasOnboarded EXCEPT ![c.userId] = TRUE]
              /\ Await(p, "revalidatePath",
                       eff[p] \cup {"metadata"}
                           \cup (IF ~hasOnboarded[c.userId] THEN {"changed"} ELSE {}))
              /\ UNCHANGED call

\* revalidatePath("/"), ("/classes"), ("/profile"); return {success: true, ...}
completeOnboarding_revalidatePath(p) ==
    LET c == call[p]
    IN  /\ pc[p] = "revalidatePath"
        /\ c.action = "completeOnboarding"
        /\ UNCHANGED <<profiles, hasOnboarded, toolVars, served>>
        /\ \/ Return(p, c.action, c.userId, c.preferences, completeOnboarding_catch,
                     eff[p], "revalidatePath")
           \/ Return(p, c.action, c.userId, c.preferences,
                     ProfileResult(TRUE, "", "Onboarding completed!"),
                     eff[p] \cup {"revalidate"}, "none")


(***************************************************************************)
(* updateLocationPreferences                                               *)
(***************************************************************************)
\* catch (error)
updateLocationPreferences_catch ==
    ProfileResult(FALSE, "Failed to update preferences", "")

\* await auth(); the userId check; the validation of the preferences
updateLocationPreferences(p, auth, preferences) ==
    LET action == "updateLocationPreferences"
        location == preferences.location
        searchRadius == preferences.searchRadius
    IN  /\ pc[p] = "idle"
        /\ UNCHANGED <<profiles, hasOnboarded, toolVars, served>>
        /\ IF ~auth.ok
           THEN Return(p, action, NoUser, preferences, updateLocationPreferences_catch,
                       {}, "auth")
           ELSE IF auth.userId = NoUser
           THEN Return(p, action, auth.userId, preferences,
                       ProfileResult(FALSE, "Unauthorized", ""), {}, "none")
           ELSE IF ~isValidLocation(location)
           THEN Return(p, action, auth.userId, preferences,
                       ProfileResult(FALSE, "Location is required", ""), {}, "none")
           ELSE IF ~isValidRadius(searchRadius)
           THEN Return(p, action, auth.userId, preferences,
                       ProfileResult(FALSE, "Search radius is required", ""), {}, "none")
           ELSE /\ Await(p, "fetch", {})
                /\ call' = [call EXCEPT ![p] =
                       [action |-> action, userId |-> auth.userId,
                        preferences |-> preferences]]

\* await client.fetch(USER_PROFILE_WITH_PREFERENCES_QUERY, {clerkId: userId})
updateLocationPreferences_fetch(p) ==
    LET c == call[p]
    IN  /\ pc[p] = "fetch"
        /\ c.action = "updateLocationPreferences"
        /\ UNCHANGED <<profiles, hasOnboarded, toolVars, served>>
        /\ \/ Return(p, c.action, c.userId, c.preferences, updateLocationPreferences_catch,
                     eff[p] \cup {"lookup"}, "fetch")
           \/ IF FetchUserProfile(c.userId) = NoDoc
              THEN Return(p, c.action, c.userId, c.preferences,
                          ProfileResult(FALSE, "User profile not found", ""),
                          eff[p] \cup {"lookup"}, "none")
              ELSE /\ Await(p, "patch", eff[p] \cup {"lookup"})
                   /\ UNCHANGED call

\* await writeClient.patch(userProfile._id).set({...}).commit()
updateLocationPreferences_patch(p) ==
    LET c == call[p]
        doc == PatchSet(profiles[c.userId], c.preferences.location,
                        c.preferences.searchRadius)
    IN  /\ pc[p] = "patch"
        /\ c.action = "updateLocationPreferences"
        /\ UNCHANGED <<hasOnboarded, store, resp, served>>
        /\ \/ /\ UNCHANGED profiles      \* the commit throws: nothing is written
              /\ Return(p, c.action, c.userId, c.preferences,
                        updateLocationPreferences_catch, eff[p], "patch")
           \/ /\ profiles' = [profiles EXCEPT ![c.userId] = doc]
              /\ Await(p, "revalidatePath",
                       eff[p] \cup {"patch"}
                           \cup (IF doc # profiles[c.userId] THEN {"changed"} ELSE {}))
              /\ UNCHANGED call

\* revalidatePath("/"), ("/classes"), ("/profile"); return {success: true, ...}
updateLocationPreferences_revalidatePath(p) ==
    LET c == call[p]
    IN  /\ pc[p] = "revalidatePath"
        /\ c.action = "updateLocationPreferences"
        /\ UNCHANGED <<profiles, hasOnboarded, toolVars, served>>
        /\ \/ Return(p, c.action, c.userId, c.preferences, updateLocationPreferences_catch,
                     eff[p], "revalidatePath")
           \/ Return(p, c.action, c.userId, c.preferences,
                     ProfileResult(TRUE, "", "Preferences updated!"),
                     eff[p] \cup {"revalidate"}, "none")

(***************************************************************************)
(* getUserPreferences, redirectAfterOnboarding                             *)
(***************************************************************************)
\* auth(), then one sanityFetch of the user's profile; null unless both preferences
\* are valid, and null for anything thrown
getUserPreferences(p, auth) ==
    LET action == "getUserPreferences"
        data == FetchUserProfile(auth.userId)
    IN  /\ pc[p] = "idle"
        /\ UNCHANGED <<profiles, hasOnboarded, toolVars, served>>
        /\ IF ~auth.ok
           THEN Return(p, action, NoUser, NoPreferences, NullResult, {}, "auth")
           ELSE IF auth.userId = NoUser
           THEN Return(p, action, auth.userId, NoPreferences, NullResult, {}, "none")
           ELSE \/ Return(p, action, auth.userId, NoPreferences, NullResult,
                          {"lookup"}, "sanityFetch")
                \/ IF ~isValidLocation(data.location) \/ ~isValidRadius(data.searchRadius)
                   THEN Return(p, action, auth.userId, NoPreferences, NullResult,
                               {"lookup"}, "none")
                   ELSE Return(p, action, auth.userId, NoPreferences,
                               PreferencesResult(
                                   Location(data.location.lat, data.location.lng,
                                            data.location.address),
                                   data.searchRadius),
                               {"lookup"}, "none")

\* redirect("/"): next/navigation's redirect returns never; it throws NEXT_REDIRECT,
\* and the action has no try around it
redirectAfterOnboarding(p) ==
    /\ pc[p] = "idle"
    /\ UNCHANGED <<profiles, hasOnboarded, toolVars, served>>
    /\ Return(p, "redirectAfterOnboarding", NoUser, NoPreferences,
              Exception("NEXT_REDIRECT"), {"redirect"}, "redirect")



(***************************************************************************)
(* The AI tools (src/lib/ai/tools.ts)                                      *)
(***************************************************************************)
Null == [t |-> "null", fin |-> FALSE, n |-> 0, s |-> <<>>]

\* typeof v === "string" && v.trim().length > 0 ? v : null
asStringOrNull(v) == IF v.t = "string" /\ Len(Trim(v.s)) > 0 THEN v ELSE Null

\* typeof v === "number" && Number.isFinite(v) ? v : null
asNumberOrNull(v) == IF v.t = "number" /\ v.fin THEN v ELSE Null

\* a ?? b
Coalesce(a, b) == IF a.t \in {"null", "undefined"} THEN b ELSE a

\* the truthiness of an optional string or number parameter
Truthy(v) ==
    \/ v.t = "string" /\ Len(v.s) > 0
    \/ v.t = "number" /\ (v.fin => v.n # 0) /\ v # NaN

UpperCase == <<"A", "B", "C", "D", "E", "F", "G", "H", "I", "J", "K", "L", "M",
               "N", "O", "P", "Q", "R", "S", "T", "U", "V", "W", "X", "Y", "Z">>
LowerCase == <<"a", "b", "c", "d", "e", "f", "g", "h", "i", "j", "k", "l", "m",
               "n", "o", "p", "q", "r", "s", "t", "u", "v", "w", "x", "y", "z">>

\* String.prototype.toLowerCase
toLowerCase(s) ==
    [i \in 1..Len(s) |->
        IF \E k \in 1..Len(UpperCase) : UpperCase[k] = s[i]
        THEN LowerCase[CHOOSE k \in 1..Len(UpperCase) : UpperCase[k] = s[i]]
        ELSE s[i]]

\* String.prototype.includes
includes(s, sub) ==
    \E i \in 0..(Len(s) - Len(sub)) : SubSeq(s, i + 1, i + Len(sub)) = sub

\* GROQ: field match "*text*", for a one-word text: the field holds it, whatever the case
Match(field, text) ==
    field.t = "string" /\ includes(toLowerCase(field.s), toLowerCase(text.s))

\* a slice that keeps the whole list
Slice_Unbounded(list, n) == list

\* GROQ: list[0...n]; Array.prototype.slice(0, n)
Slice(list, n) == SubSeq(list, 1, IF Len(list) < n THEN Len(list) ELSE n)

\* Array.prototype.filter and the filter of a GROQ query are SelectSeq; Array.prototype.map
\* and a GROQ projection are written [i \in 1..Len(list) |-> F(list[i])]


(***************************************************************************)
(* The content store the tools query.  Each collection is a list of kinds  *)
(* of document and, per kind, how many documents of that kind the store    *)
(* holds; the kinds are listed in the order the queries sort by (name,     *)
(* startTime), so that a collection's documents in query order are each    *)
(* kind's documents in turn.                                               *)
(***************************************************************************)
Category(name) == [t |-> "object", name |-> Str(name)]
NoCategory == [t |-> "null", name |-> Null]

\* activity documents, by name; scheduledUpcoming is what the query's
\* count(*[_type == "classSession" && activity._ref == ^._id && startTime > now()
\*         && status == "scheduled"]) evaluates to
ActivityKinds ==
    << [name |-> Str(<<"A", "q", "u", "a">>), instructor |-> Str(<<"A", "n", "n">>),
        duration |-> Num(45), tierLevel |-> "basic", category |-> NoCategory,
        scheduledUpcoming |-> 1],
       [name |-> Str(<<"B", "o", "x">>), instructor |-> Str(<<"B", "o">>),
        duration |-> Num(60), tierLevel |-> "champion",
        category |-> Category(<<"H", "I", "I", "T">>), scheduledUpcoming |-> 2],
       [name |-> Str(<<"F", "l", "o", "w">>), instructor |-> Str(<<"A", "n", "n">>),
        duration |-> Num(30), tierLevel |-> "performance",
        category |-> Category(<<"H", "o", "t", " ", "Y", "o", "g", "a">>),
        scheduledUpcoming |-> 1],
       [name |-> Str(<<"S", "p", "i", "n">>), instructor |-> Str(<<"B", "o">>),
        duration |-> Num(45), tierLevel |-> "basic",
        category |-> Category(<<"C", "y", "c", "l", "i", "n", "g">>),
        scheduledUpcoming |-> 1],
       [name |-> Str(<<"Z", "e", "n">>), instructor |-> Str(<<"B", "o">>),
        duration |-> Num(45), tierLevel |-> "basic",
        category |-> Category(<<"Y", "o", "g", "a">>), scheduledUpcoming |-> 0] >>

\* classSession documents, by startTime; confirmed is what the query's
\* count(*[_type == "booking" && classSession._ref == ^._id && status == "confirmed"])
\* evaluates to
SessionKinds ==
    << [startTime |-> Str(<<"0", "9", "h">>), upcoming |-> FALSE, status |-> "scheduled",
        maxCapacity |-> Num(5), confirmed |-> 5, activity |-> 1, venue |-> 1],
       [startTime |-> Str(<<"1", "0", "h">>), upcoming |-> TRUE, status |-> "scheduled",
        maxCapacity |-> Num(5), confirmed |-> 3, activity |-> 1, venue |-> 1],
       [startTime |-> Str(<<"1", "1", "h">>), upcoming |-> TRUE, status |-> "scheduled",
        maxCapacity |-> Num(5), confirmed |-> 7, activity |-> 2, venue |-> 0],
       [startTime |-> Str(<<"1", "2", "h">>), upcoming |-> TRUE, status |-> "cancelled",
        maxCapacity |-> Num(5), confirmed |-> 0, activity |-> 2, venue |-> 2],
       [startTime |-> Str(<<"1", "3", "h">>), upcoming |-> TRUE, status |-> "scheduled",
        maxCapacity |-> Null, confirmed |-> 2, activity |-> 0, venue |-> 2],
       [startTime |-> Str(<<"1", "4", "h">>), upcoming |-> TRUE, status |-> "scheduled",
        maxCapacity |-> Null, confirmed |-> 2, activity |-> 2, venue |-> 1],
       [startTime |-> Str(<<"1", "5", "h">>), upcoming |-> TRUE, status |-> "scheduled",
        maxCapacity |-> Num(5), confirmed |-> 5, activity |-> 2, venue |-> 2],
       [startTime |-> Str(<<"1", "6", "h">>), upcoming |-> TRUE, status |-> "scheduled",
        maxCapacity |-> Num(0), confirmed |-> 0, activity |-> 1, venue |-> 0] >>

\* venue documents, by name
VenueKinds ==
    << [name |-> Str(<<"G", "y", "m">>), city |-> Str(<<"G", "u", "l", "u">>)],
       [name |-> Str(<<"L", "o", "f", "t">>), city |-> Null] >>

\* booking documents of the users
BookingKinds ==
    << [user |-> "user_1", upcoming |-> TRUE, status |-> Str(<<"c">>),
        createdAt |-> Str(<<"d", "1">>), attendedAt |-> Undef, classSession |-> 2],
       [user |-> "user_1", upcoming |-> FALSE, status |-> Str(<<"a">>),
        createdAt |-> Str(<<"d", "0">>), attendedAt |-> Str(<<"d", "0">>),
        classSession |-> 1],
       [user |-> "user_1", upcoming |-> TRUE, status |-> Null,
        createdAt |-> Null, attendedAt |-> Null, classSession |-> 0],
       [user |-> "user_2", upcoming |-> TRUE, status |-> Str(<<"c">>),
        createdAt |-> Str(<<"d", "1">>), attendedAt |-> Undef, classSession |-> 3] >>

\* the documents of a collection in query order: counts[k] documents of kind k, each
\* with its own _id
RECURSIVE DocsFrom(_, _, _)
DocsFrom(kinds, counts, k) ==
    IF k > Len(kinds) THEN <<>>
    ELSE [i \in 1..counts[k] |-> [_id |-> <<k, i>>, doc |-> kinds[k]]]
             \o DocsFrom(kinds, counts, k + 1)

Docs(kinds, counts) == DocsFrom(kinds, counts, 1)


SearchClassesLimit == 10
ClassSessionsLimit == 10
SearchVenuesLimit == 10
RecommendationsQueryLimit == 20
RecommendationsLimit == 5
DurationTolerance == 15
\* the queries of sanity/lib/queries/ai return a bounded list, of at most 20 items
AiQueryLimit == 20

\* what a tool's execute hands back: the payload's count field (Undef when it has
\* none), its list, its error field, and the queries it sent to the content store
ToolResult(count, list, error, fetched) ==
    [kind |-> "return", count |-> count, list |-> list, error |-> error,
     fetched |-> fetched]

\* client.fetch rejected: execute has no try around it
ToolException(fetched) ==
    [kind |-> "exception", count |-> Undef, list |-> <<>>, error |-> Undef,
     fetched |-> fetched]

NoTier == ""
NoGoal == ""
NoType == ""

\* activity._ref -> {name, ...}: null when the reference resolves to nothing
ActivityOf(ref) == IF ref \in 1..Len(ActivityKinds) THEN ActivityKinds[ref].name ELSE Null
VenueOf(ref) == IF ref \in 1..Len(VenueKinds) THEN VenueKinds[ref].name ELSE Null

\* the projection {_id, name, instructor, duration, tierLevel, category->{name}}
ActivityProjection(a) ==
    [_id |-> a._id, name |-> a.doc.name, instructor |-> a.doc.instructor,
     duration |-> a.doc.duration, tierLevel |-> a.doc.tierLevel,
     category |-> a.doc.category]

\* the filter both activity queries start from: an activity with at least one
\* upcoming scheduled session
HasUpcomingSession(a) == a.doc.scheduledUpcoming > 0

\* searchClasses: execute
searchClasses(query, category, instructor, tierLevel) ==
    LET filter(a) ==
            /\ HasUpcomingSession(a)
            /\ Truthy(query) => (Match(a.doc.name, query) \/ Match(a.doc.instructor, query))
            /\ Truthy(instructor) => Match(a.doc.instructor, instructor)
            /\ tierLevel # NoTier => a.doc.tierLevel = tierLevel
        fetched == Slice(SelectSeq(Docs(ActivityKinds, store.activities), filter),
                         SearchClassesLimit)
        activities == [i \in 1..Len(fetched) |-> ActivityProjection(fetched[i])]
        inCategory(a) ==
            /\ a.category.t = "object"
            /\ a.category.name.t = "string"
            /\ includes(toLowerCase(a.category.name.s), toLowerCase(category.s))
        filtered == IF Truthy(category) THEN SelectSeq(activities, inCategory) ELSE activities
    IN  ToolResult(Num(Len(filtered)), filtered, Undef, <<"activity">>)

\* a maximum that hands back its second argument
Max_Second(a, b) == b

\* Math.max, Math.min
Max(a, b) == IF a > b THEN a ELSE b

Min(a, b) == IF a < b THEN a ELSE b

\* a tier as a string value: one word
TierName(tier) == Str(<<tier>>)

\* s.activity ? {name, instructor, duration, tierLevel} : null
SessionActivity(ref) ==
    IF ref \in 1..Len(ActivityKinds)
    THEN [t |-> "object",
          name |-> asStringOrNull(ActivityKinds[ref].name),
          instructor |-> asStringOrNull(ActivityKinds[ref].instructor),
          duration |-> asNumberOrNull(ActivityKinds[ref].duration),
          tierLevel |-> asStringOrNull(TierName(ActivityKinds[ref].tierLevel))]
    ELSE [t |-> "null", name |-> Null, instructor |-> Null, duration |-> Null,
          tierLevel |-> Null]

\* s.venue ? {name, city} : null
SessionVenue(ref) ==
    IF ref \in 1..Len(VenueKinds)
    THEN [t |-> "object",
          name |-> asStringOrNull(VenueKinds[ref].name),
          city |-> asStringOrNull(VenueKinds[ref].city)]
    ELSE [t |-> "null", name |-> Null, city |-> Null]

\* the session a tool returns for a classSession of the query; currentBookings is
\* the query's count of the session's confirmed bookings
SessionResponse(s) ==
    LET maxCapacity == Coalesce(s.doc.maxCapacity, Num(0))
        currentBookings == Coalesce(Num(s.doc.confirmed), Num(0))
    IN  [id |-> s._id,
         startTime |-> asStringOrNull(s.doc.startTime),
         spotsAvailable |-> Max(0, maxCapacity.n - currentBookings.n),
         activity |-> SessionActivity(s.doc.activity),
         venue |-> SessionVenue(s.doc.venue)]

\* getClassSessions: execute
getClassSessions(className) ==
    LET filter(s) ==
            /\ Match(ActivityOf(s.doc.activity), className)
            /\ s.doc.upcoming
            /\ s.doc.status = "scheduled"
        sessions == Slice(SelectSeq(Docs(SessionKinds, store.sessions), filter),
                          ClassSessionsLimit)
    IN  ToolResult(Num(Len(sessions)),
                   [i \in 1..Len(sessions) |-> SessionResponse(sessions[i])], Undef,
                   <<"classSession">>)

\* AI_SEARCH_VENUES_QUERY: the venues, a bounded list
AI_SEARCH_VENUES_QUERY == Slice(Docs(VenueKinds, store.venues), AiQueryLimit)

\* searchVenues: execute
searchVenues(name, city) ==
    IF ~Truthy(name) /\ ~Truthy(city)
    THEN LET venues == AI_SEARCH_VENUES_QUERY
         IN  ToolResult(Num(Len(venues)), venues, Undef, <<"AI_SEARCH_VENUES_QUERY">>)
    ELSE LET filter(v) ==
                 /\ Truthy(name) => Match(v.doc.name, name)
                 /\ Truthy(city) => Match(v.doc.city, city)
             venues == Slice(SelectSeq(Docs(VenueKinds, store.venues), filter),
                             SearchVenuesLimit)
         IN  ToolResult(Num(Len(venues)), venues, Undef, <<"venue">>)

\* AI_CATEGORIES_QUERY: the categories, a bounded list
AI_CATEGORIES_QUERY ==
    Slice([i \in 1..store.categories |-> [_id |-> <<0, i>>]], AiQueryLimit)

\* getCategories: execute
getCategories ==
    LET categories == AI_CATEGORIES_QUERY
    IN  ToolResult(Num(Len(categories)), categories, Undef, <<"AI_CATEGORIES_QUERY">>)

\* getSubscriptionInfo: execute
getSubscriptionInfo ==
    ToolResult(Undef,
               << [name |-> "Basic", monthlyPrice |-> 29, annualPrice |-> 290],
                  [name |-> "Performance", monthlyPrice |-> 59, annualPrice |-> 590],
                  [name |-> "Champion", monthlyPrice |-> 99, annualPrice |-> 990] >>,
               Undef, <<>>)


\* goalCategories[fitnessGoal]
goalCategories(fitnessGoal) ==
    CASE fitnessGoal = "strength" ->
             << <<"H", "I", "I", "T">>, <<"S", "t", "r", "e", "n", "g", "t", "h">>,
                <<"C", "r", "o", "s", "s", "F", "i", "t">> >>
      [] fitnessGoal = "flexibility" ->
             << <<"Y", "o", "g", "a">>, <<"P", "i", "l", "a", "t", "e", "s">>,
                <<"S", "t", "r", "e", "t", "c", "h", "i", "n", "g">> >>
      [] fitnessGoal = "cardio" ->
             << <<"C", "y", "c", "l", "i", "n", "g">>, <<"R", "u", "n", "n", "i", "n", "g">>,
                <<"D", "a", "n", "c", "e">>, <<"H", "I", "I", "T">> >>
      [] fitnessGoal = "relaxation" ->
             << <<"Y", "o", "g", "a">>, <<"M", "e", "d", "i", "t", "a", "t", "i", "o", "n">>,
                <<"P", "i", "l", "a", "t", "e", "s">> >>
      [] fitnessGoal = "weight-loss" ->
             << <<"H", "I", "I", "T">>, <<"C", "y", "c", "l", "i", "n", "g">>,
                <<"B", "o", "o", "t", " ", "C", "a", "m", "p">> >>
      [] OTHER -> <<>>

\* the tiers, with performance opened to every tier
tierLevels_PerformanceSeesAll(tierLevel) ==
    IF tierLevel \in {"champion", "performance"} THEN {"basic", "performance", "champion"}
    ELSE {"basic"}

\* the tiers a subscription tier may book
tierLevels(tierLevel) ==
    IF tierLevel = "champion" THEN {"basic", "performance", "champion"}
    ELSE IF tierLevel = "performance" THEN {"basic", "performance"}
    ELSE {"basic"}

\* getRecommendations: execute
getRecommendations(fitnessGoal, preferredDuration, tierLevel) ==
    LET filter(a) ==
            /\ HasUpcomingSession(a)
            /\ tierLevel # NoTier => a.doc.tierLevel \in tierLevels(tierLevel)
            /\ Truthy(preferredDuration) =>
                   /\ a.doc.duration.n <= preferredDuration.n + DurationTolerance
                   /\ a.doc.duration.n >= preferredDuration.n - DurationTolerance
        fetched == Slice(SelectSeq(Docs(ActivityKinds, store.activities), filter),
                         RecommendationsQueryLimit)
        activities == [i \in 1..Len(fetched) |-> ActivityProjection(fetched[i])]
        targetCategories == goalCategories(fitnessGoal)
        inTarget(a) ==
            /\ a.category.t = "object"
            /\ \E i \in 1..Len(targetCategories) :
                   includes(toLowerCase(a.category.name.s), toLowerCase(targetCategories[i]))
        matching == SelectSeq(activities, inTarget)
        recommended ==
            IF fitnessGoal # NoGoal /\ targetCategories # <<>>
            THEN (IF Len(matching) = 0 THEN activities ELSE matching)
            ELSE activities
    IN  ToolResult(Num(Min(Len(recommended), RecommendationsLimit)),
                   Slice(recommended, RecommendationsLimit), Undef, <<"activity">>)

\* AI_USER_UPCOMING_BOOKINGS_QUERY, AI_USER_PAST_BOOKINGS_QUERY,
\* AI_USER_ALL_BOOKINGS_QUERY with {clerkId}: the user's bookings, a bounded list
AI_USER_BOOKINGS_QUERY(type, clerkId) ==
    LET filter(b) ==
            /\ b.doc.user = clerkId
            /\ type = "upcoming" => b.doc.upcoming
            /\ type = "past" => ~b.doc.upcoming
    IN  Slice(SelectSeq(Docs(BookingKinds, store.bookings), filter), AiQueryLimit)

\* the booking a tool returns for a booking of the query
BookingResponse(b) ==
    LET classSession ==
            IF b.doc.classSession \in 1..Len(SessionKinds)
            THEN SessionKinds[b.doc.classSession]
            ELSE [startTime |-> Null, activity |-> 0, venue |-> 0]
    IN  [id |-> b._id,
         status |-> Coalesce(b.doc.status, Null),
         bookedAt |-> Coalesce(b.doc.createdAt, Null),
         attendedAt |-> Coalesce(b.doc.attendedAt, Null),
         class |-> Coalesce(ActivityOf(classSession.activity), Null),
         dateTime |-> Coalesce(classSession.startTime, Null),
         venue |-> Coalesce(VenueOf(classSession.venue), Null)]

\* getUserBookings with the bookings fetched before the clerkId is looked at
getUserBookings_FetchFirst(type, clerkId) ==
    LET kind == IF type = NoType THEN "upcoming" ELSE type
        bookings == AI_USER_BOOKINGS_QUERY(kind, clerkId)
    IN  IF clerkId = NoUser
        THEN ToolResult(Num(0), <<>>, Str(<<"User not authenticated">>), <<kind>>)
        ELSE ToolResult(Num(Len(bookings)),
                        [i \in 1..Len(bookings) |-> BookingResponse(bookings[i])], Undef,
                        <<kind>>)

\* getUserBookings: execute ({type = "upcoming", clerkId})
getUserBookings(type, clerkId) ==
    LET kind == IF type = NoType THEN "upcoming" ELSE type
        query == IF kind = "past" THEN "past"
                 ELSE IF kind = "all" THEN "all" ELSE "upcoming"
        bookings == AI_USER_BOOKINGS_QUERY(query, clerkId)
    IN  IF clerkId = NoUser
        THEN ToolResult(Num(0), <<>>, Str(<<"User not authenticated">>), <<>>)
        ELSE ToolResult(Num(Len(bookings)),
                        [i \in 1..Len(bookings) |-> BookingResponse(bookings[i])], Undef,
                        <<query>>)

(***************************************************************************)
(* A call of a tool: the agent gets the payload, or the exception of a     *)
(* rejected client.fetch                                                   *)
(***************************************************************************)
NoResp == [tool |-> "none", input |-> <<>>, out |-> ToolException(<<>>)]

Execute(tool, input, out) ==
    /\ \/ resp' = [tool |-> tool, input |-> input, out |-> out]
       \/ /\ out.fetched # <<>>
          /\ resp' = [tool |-> tool, input |-> input, out |-> ToolException(out.fetched)]
    /\ UNCHANGED <<store, served, profileVars>>


\* the tools of aiTools
Call_searchClasses(query, category, instructor, tierLevel) ==
    /\ resp = NoResp
    /\ Execute("searchClasses", <<query, category, instructor, tierLevel>>,
               searchClasses(query, category, instructor, tierLevel))

Call_getClassSessions(className) ==
    /\ resp = NoResp
    /\ Execute("getClassSessions", <<className>>, getClassSessions(className))

Call_searchVenues(name, city) ==
    /\ resp = NoResp
    /\ Execute("searchVenues", <<name, city>>, searchVenues(name, city))

Call_getCategories ==
    /\ resp = NoResp
    /\ Execute("getCategories", <<>>, getCategories)

Call_getSubscriptionInfo ==
    /\ resp = NoResp
    /\ Execute("getSubscriptionInfo", <<>>, getSubscriptionInfo)

Call_getRecommendations(fitnessGoal, preferredDuration, tierLevel) ==
    /\ resp = NoResp
    /\ Execute("getRecommendations", <<fitnessGoal, preferredDuration, tierLevel>>,
               getRecommendations(fitnessGoal, preferredDuration, tierLevel))

Call_getUserBookings(type, clerkId) ==
    /\ resp = NoResp
    /\ Execute("getUserBookings", <<type, clerkId>>, getUserBookings(type, clerkId))

\* the agent takes the tool's result; it calls one tool at a time
TakeResult ==
    /\ resp # NoResp
    /\ resp' = NoResp
    /\ UNCHANGED <<store, served, profileVars>>

(***************************************************************************)
(* The response headers (src/next.config.ts)                               *)
(***************************************************************************)
Header(key, value) == [key |-> key, value |-> value]

\* the directives of the Permissions-Policy value: feature=allowlist
PermissionsPolicy ==
    << [feature |-> "geolocation", allowlist |-> "()"],
       [feature |-> "microphone", allowlist |-> "()"],
       [feature |-> "camera", allowlist |-> "()"],
       [feature |-> "autoplay", allowlist |-> "()"],
       [feature |-> "payment", allowlist |-> "()"],
       [feature |-> "publickey-credentials-get", allowlist |-> "()"],
       [feature |-> "screen-wake-lock", allowlist |-> "()"],
       [feature |-> "usb", allowlist |-> "()"],
       [feature |-> "web-share", allowlist |-> "()"],
       [feature |-> "fullscreen", allowlist |-> "(self)"],
       [feature |-> "picture-in-picture", allowlist |-> "(self)"],
       [feature |-> "display-capture", allowlist |-> "()"],
       [feature |-> "encrypted-media", allowlist |-> "()"],
       [feature |-> "gyroscope", allowlist |-> "()"],
       [feature |-> "magnetometer", allowlist |-> "()"],
       [feature |-> "midi", allowlist |-> "()"] >>

\* Array.prototype.join
RECURSIVE join(_, _)
join(list, separator) ==
    IF list = <<>> THEN ""
    ELSE IF Len(list) = 1 THEN Head(list)
    ELSE Head(list) \o separator \o join(Tail(list), separator)

Directive(d) == d.feature \o "=" \o d.allowlist

\* [...].join(", ")
PermissionsPolicyValue ==
    join([i \in 1..Len(PermissionsPolicy) |-> Directive(PermissionsPolicy[i])], ", ")

\* headers() with the X-Frame-Options entry left out
headers_NoFrameOptions ==
    << [source |-> <<":path*">>,
        headers |->
            << Header("X-Content-Type-Options", "nosniff"),
               Header("Referrer-Policy", "strict-origin-when-cross-origin"),
               Header("Cross-Origin-Opener-Policy", "same-origin"),
               Header("Cross-Origin-Resource-Policy", "same-origin"),
               Header("X-Permitted-Cross-Domain-Policies", "none"),
               Header("Permissions-Policy", PermissionsPolicyValue) >>] >>

\* async headers(): the rules, each a source pattern (its segments) and its headers
headers ==
    << [source |-> <<":path*">>,
        headers |->
            << Header("X-Content-Type-Options", "nosniff"),
               Header("X-Frame-Options", "SAMEORIGIN"),
               Header("Referrer-Policy", "strict-origin-when-cross-origin"),
               Header("Cross-Origin-Opener-Policy", "same-origin"),
               Header("Cross-Origin-Resource-Policy", "same-origin"),
               Header("X-Permitted-Cross-Domain-Policies", "none"),
               Header("Permissions-Policy", PermissionsPolicyValue) >>] >>

\* whether a request path (its segments) matches a source pattern: ":name*" stands
\* for any number of segments, ":name" for one, anything else for itself
RECURSIVE MatchesSource(_, _)
MatchesSource(source, path) ==
    IF source = <<>> THEN path = <<>>
    ELSE IF Head(source) = ":path*"
    THEN \E k \in 0..Len(path) :
             MatchesSource(Tail(source), SubSeq(path, k + 1, Len(path)))
    ELSE IF Head(source) = ":path"
    THEN path # <<>> /\ MatchesSource(Tail(source), Tail(path))
    ELSE path # <<>> /\ Head(path) = Head(source)
             /\ MatchesSource(Tail(source), Tail(path))

\* the headers the rules add to the response for a path
RECURSIVE HeadersFor(_, _)
HeadersFor(rules, path) ==
    IF rules = <<>> THEN <<>>
    ELSE (IF MatchesSource(Head(rules).source, path) THEN Head(rules).headers ELSE <<>>)
             \o HeadersFor(Tail(rules), path)

NoServed == [t |-> "none", path |-> <<>>, headers |-> <<>>]

\* a request for a path is served
Serve(path) ==
    /\ served' = [t |-> "response", path |-> path, headers |-> HeadersFor(headers, path)]
    /\ UNCHANGED <<store, resp, profileVars>>

(***************************************************************************)
(* Inputs of the profile actions                                           *)
(***************************************************************************)
AddressA == Str(<<"K", "l", "a">>)
AddressB == Str(<<" ", "G", "u">>)      \* valid: not blank once trimmed

LocationA == Location(Num(1), Num(2), AddressA)
LocationB == Location(Num(3), Num(4), AddressB)

ValidLocations == {LocationA, LocationB}
InvalidLocations ==
    { NoLocation,
      Location(Undef, Num(2), AddressA),
      Location(Num(1), Str(<<"2">>), AddressA),
      Location(Num(1), Num(2), Undef),
      Location(Num(1), Num(2), Str(<<>>)),
      Location(Num(1), Num(2), Str(<<" ", "\t">>)) }

ValidRadii == {Num(1), Num(5)}
InvalidRadii == {Undef, Str(<<"5">>), NaN, Infinity, Num(0)}

\* every combination: what one invocation can be handed
AllPreferences ==
    { ProfilePreferences(l, r) :
        l \in ValidLocations \cup InvalidLocations, r \in ValidRadii \cup InvalidRadii }

\* what concurrent invocations are handed: every valid combination, and two invalid ones
RacePreferences ==
    { ProfilePreferences(l, r) : l \in ValidLocations, r \in ValidRadii }
        \cup { ProfilePreferences(NoLocation, Num(5)),
               ProfilePreferences(LocationA, Num(0)) }

\* no invocation in flight, no profile stored, nobody onboarded
ProfileIdle ==
    /\ profiles = [u \in UserIds |-> NoDoc]
    /\ hasOnboarded = [u \in UserIds |-> FALSE]
    /\ pc = [p \in Procs |-> "idle"]
    /\ call = [p \in Procs |-> NoCall]
    /\ eff = [p \in Procs |-> {}]
    /\ ret = NoRet

\* a store with one document of every kind
BaselineStore ==
    [activities |-> [k \in 1..Len(ActivityKinds) |-> 1],
     sessions |-> [k \in 1..Len(SessionKinds) |-> 1],
     venues |-> [k \in 1..Len(VenueKinds) |-> 1],
     categories |-> 1,
     bookings |-> [k \in 1..Len(BookingKinds) |-> 1]]

InitProfile ==
    /\ ProfileIdle
    /\ store = BaselineStore
    /\ resp = NoResp
    /\ served = NoServed

\* the steps of the server actions for invocation p, its inputs drawn from Prefs
ProfileStep(p, Prefs) ==
    \/ \E auth \in AuthOutcomes, preferences \in Prefs :
           completeOnboarding(p, auth, preferences)
    \/ completeOnboarding_getOrCreateUserProfile(p)
    \/ completeOnboarding_patch(p)
    \/ completeOnboarding_updateUserMetadata(p)
    \/ completeOnboarding_revalidatePath(p)
    \/ \E auth \in AuthOutcomes, preferences \in Prefs :
           updateLocationPreferences(p, auth, preferences)
    \/ updateLocationPreferences_fetch(p)
    \/ updateLocationPreferences_patch(p)
    \/ updateLocationPreferences_revalidatePath(p)
    \/ \E auth \in AuthOutcomes : getUserPreferences(p, auth)
    \/ redirectAfterOnboarding(p)

\* concurrent invocations
NextProfile == \E p \in Procs : ProfileStep(p, RacePreferences)

\* one invocation at a time, over every input
NextProfileSeq == ProfileStep("c1", AllPreferences)

SpecProfile == InitProfile /\ [][NextProfile]_vars
SpecProfileSeq == InitProfile /\ [][NextProfileSeq]_vars

(***************************************************************************)
(* The tools against a content store                                       *)
(***************************************************************************)
\* the most documents of one kind a store holds: more than any query returns
MaxPerKind == 21

\* how many documents of a kind a store holds: none, one, more than a page, many
Counts == {0, 1, SearchClassesLimit + 1, MaxPerKind}

\* the stores checked: the baseline with one collection varied
Stores ==
    { [BaselineStore EXCEPT !.activities = [k \in 1..Len(ActivityKinds) |->
                                               IF k < 3 THEN c[k] ELSE c[k] % 2]] :
        c \in [1..Len(ActivityKinds) -> Counts] }
    \cup { [BaselineStore EXCEPT !.sessions = [@ EXCEPT ![2] = a, ![3] = b]] :
             a \in Counts, b \in Counts }
    \cup { [BaselineStore EXCEPT !.venues = c] : c \in [1..Len(VenueKinds) -> Counts] }
    \cup { [BaselineStore EXCEPT !.categories = c] : c \in Counts }
    \cup { [BaselineStore EXCEPT !.bookings = [@ EXCEPT ![1] = a, ![2] = b, ![3] = c]] :
             a \in Counts, b \in Counts, c \in {0, 1} }

TextInputs(words) == {Undef} \cup {Str(w) : w \in words}
TierInputs == {NoTier, "basic", "performance", "champion"}
GoalInputs == {NoGoal, "strength", "flexibility", "cardio", "relaxation", "weight-loss"}
DurationInputs == {Undef, Num(0), Num(45)}
TypeInputs == {NoType, "upcoming", "past", "all"}

InitTools ==
    /\ ProfileIdle
    /\ store \in Stores
    /\ resp = NoResp
    /\ served = NoServed

NextTools ==
    \/ \E query \in TextInputs({<<"o">>}),
          category \in TextInputs({<<"y", "o", "g", "a">>, <<"H", "i", "i", "t">>}),
          instructor \in TextInputs({<<"a", "n", "n">>}),
          tierLevel \in TierInputs :
           Call_searchClasses(query, category, instructor, tierLevel)
    \/ \E className \in {Str(<<"a", "q", "u", "a">>), Str(<<"B", "O">>)} :
           Call_getClassSessions(className)
    \/ \E name \in TextInputs({<<"g", "y", "m">>}), city \in TextInputs({<<"g", "u">>}) :
           Call_searchVenues(name, city)
    \/ Call_getCategories
    \/ Call_getSubscriptionInfo
    \/ \E fitnessGoal \in GoalInputs, preferredDuration \in DurationInputs,
          tierLevel \in TierInputs :
           Call_getRecommendations(fitnessGoal, preferredDuration, tierLevel)
    \/ \E type \in TypeInputs, clerkId \in UserIds \cup {NoUser} :
           Call_getUserBookings(type, clerkId)
    \/ TakeResult

SpecTools == InitTools /\ [][NextTools]_vars

(***************************************************************************)
(* Requests served under the header rules                                  *)
(***************************************************************************)
\* the longest request path, in segments
MaxPathDepth == 4

Segments == {"classes", "profile", "api"}

RECURSIVE Paths(_)
Paths(depth) ==
    IF depth = 0 THEN {<<>>}
    ELSE Paths(depth - 1)
             \cup {Append(p, seg) : p \in Paths(depth - 1), seg \in Segments}

InitHeaders ==
    /\ ProfileIdle
    /\ store = BaselineStore
    /\ resp = NoResp
    /\ served = NoServed

NextHeaders == \E path \in Paths(MaxPathDepth) : Serve(path)

SpecHeaders == InitHeaders /\ [][NextHeaders]_vars

(***************************************************************************)
(* Claims about the profile actions                                        *)
(***************************************************************************)
OnboardingActions == {"completeOnboarding", "updateLocationPreferences"}

Blank(s) == \A i \in 1..Len(s) : s[i] \in Whitespace

\* a location that is missing, or whose lat or lng is not of type number, or whose
\* address is missing or blank
LocationMissingOrInvalid(location) ==
    \/ location.t = "undefined"
    \/ location.lat.t # "number"
    \/ location.lng.t # "number"
    \/ location.address.t # "string"
    \/ Blank(location.address.s)

\* a radius that is missing or not a finite number >= 1
RadiusMissingOrInvalid(radius) ==
    \/ radius.t # "number"
    \/ ~radius.fin
    \/ radius.n < 1

Returned(actions) == ret.t = "return" /\ ret.action \in actions

\* C1: an authenticated call of completeOnboarding or updateLocationPreferences with
\* a missing or invalid location or radius returns success=false with the validation
\* error (the location's first) and has performed no external effect: no profile
\* lookup, creation or patch, no Clerk metadata update.
C1_InvalidPreferencesRejectedWithoutWrite ==
    ( /\ Returned(OnboardingActions)
      /\ ret.threw # "auth"
      /\ ret.userId # NoUser
      /\ \/ LocationMissingOrInvalid(ret.preferences.location)
         \/ RadiusMissingOrInvalid(ret.preferences.searchRadius) )
    => /\ ret.result =
              ProfileResult(FALSE,
                  IF LocationMissingOrInvalid(ret.preferences.location)
                  THEN "Location is required"
                  ELSE "Search radius is required", "")
       /\ ret.eff = {}

C1_Witness ==
    /\ Returned({"completeOnboarding"})
    /\ ret.userId \in UserIds
    /\ ret.preferences = ProfilePreferences(LocationA, Infinity)
    /\ ret.result.error = "Search radius is required"
    /\ profiles[ret.userId] # NoDoc

\* C5: when auth() yields no userId, completeOnboarding and updateLocationPreferences
\* return {success: false, error: 'Unauthorized'} whatever the preferences are, having
\* performed no lookup, creation, patch, metadata update or revalidation.
C5_NoSessionIsUnauthorized ==
    ( /\ Returned(OnboardingActions)
      /\ ret.threw # "auth"
      /\ ret.userId = NoUser )
    => /\ ret.result = ProfileResult(FALSE, "Unauthorized", "")
       /\ ret.eff = {}

C5_Witness ==
    /\ Returned({"updateLocationPreferences"})
    /\ ret.threw = "none"
    /\ ret.userId = NoUser
    /\ LocationMissingOrInvalid(ret.preferences.location)
    /\ ret.result.error = "Unauthorized"

AllActions ==
    OnboardingActions \cup {"getUserPreferences", "redirectAfterOnboarding"}

\* C6 as stated: every exported action turns a failure of an external step into a
\* {success: false, error: <string>} result, and no exception reaches the caller.
C6_EveryActionReturnsFailureResult ==
    (Returned(AllActions) /\ ret.threw # "none")
    => /\ ret.result.kind = "ProfileResult"
       /\ ~ret.result.success
       /\ ret.result.error # ""

\* C6 amended: completeOnboarding and updateLocationPreferences turn any failure of
\* an external step into their {success: false, error} result; getUserPreferences
\* turns it into null; redirectAfterOnboarding lets redirect's exception through.
C6_FailureAtBoundaryPerAction ==
    (Returned(AllActions) /\ ret.threw # "none")
    => CASE ret.action = "completeOnboarding" ->
                ret.result = ProfileResult(FALSE, "Failed to complete onboarding", "")
         [] ret.action = "updateLocationPreferences" ->
                ret.result = ProfileResult(FALSE, "Failed to update preferences", "")
         [] ret.action = "getUserPreferences" -> ret.result = NullResult
         [] OTHER -> ret.result.kind = "exception"

C6_Witness ==
    /\ Returned({"completeOnboarding"})
    /\ ret.threw = "updateUserMetadata"
    /\ ret.result.kind = "ProfileResult"
    /\ "patch" \in ret.eff


\* the step in which invocation p's patch commits and p goes on
PatchCommits(p) ==
    /\ pc[p] = "patch"
    /\ pc'[p] \in {"updateUserMetadata", "revalidatePath"}

\* C2: a call of completeOnboarding or updateLocationPreferences that returns
\* success=true has committed its patch, and in the step that commits it the user's
\* stored profile becomes the profile it was with location (lat, lng, address) and
\* searchRadius exactly as submitted: no other field and no other document changes.
C2_StoredPreferencesMatchSubmitted ==
    /\ []( (Returned(OnboardingActions) /\ ret.result.success)
             => /\ "patch" \in ret.eff
                /\ ret.userId \in UserIds )
    /\ [][ \A p \in Procs :
             PatchCommits(p)
             => profiles' =
                  [profiles EXCEPT
                     ![call[p].userId] =
                        [t |-> profiles[call[p].userId].t,
                         clerkId |-> profiles[call[p].userId].clerkId,
                         location |-> call[p].preferences.location,
                         searchRadius |-> call[p].preferences.searchRadius]] ]_vars

C2_Witness ==
    /\ Returned({"updateLocationPreferences"})
    /\ ret.result.success
    /\ ret.preferences = ProfilePreferences(LocationB, Num(1))
    /\ "patch" \in ret.eff

StoredPreferencesValid(userId) ==
    /\ profiles[userId].t = "userProfile"
    /\ ~LocationMissingOrInvalid(profiles[userId].location)
    /\ ~RadiusMissingOrInvalid(profiles[userId].searchRadius)

\* C9: an invocation writes hasOnboarded only after its own patch has committed, and
\* in every reachable state a user whose hasOnboarded flag is true has a stored
\* profile with a valid location and a valid searchRadius.
C9_OnboardedImpliesValidProfile ==
    /\ \A p \in Procs : "metadata" \in eff[p] => "patch" \in eff[p]
    /\ "metadata" \in ret.eff => "patch" \in ret.eff
    /\ \A u \in UserIds : hasOnboarded[u] => StoredPreferencesValid(u)

C9_Witness ==
    /\ hasOnboarded["user_1"]
    /\ \E p \in Procs :
          /\ pc[p] = "patch"
          /\ call[p].preferences.location # profiles["user_1"].location
    /\ \E p \in Procs : pc[p] = "getOrCreateUserProfile"

ToolReturned == resp.tool # "none" /\ resp.out.kind = "return"

HasCountOfList(out) == out.count.t = "number" /\ out.count.fin /\ out.count.n = Len(out.list)

\* C3: every response of every tool of aiTools has a count field, equal to
\* the length of the list in the same response.
C3_EveryToolCountsItsList == ToolReturned => HasCountOfList(resp.out)

\* what the code does: every response of searchClasses, getClassSessions,
\* searchVenues, getCategories, getRecommendations and getUserBookings has a count
\* field equal to the length of the list in the same response; the response of
\* getSubscriptionInfo is its three tiers and has no count field.
QueryToolsCountTheirList ==
    ToolReturned
    => IF resp.tool = "getSubscriptionInfo"
       THEN resp.out.count.t = "undefined" /\ Len(resp.out.list) = 3
       ELSE HasCountOfList(resp.out)

QueryToolCountsItsList ==
    /\ ToolReturned
    /\ resp.tool = "getRecommendations"
    /\ store.activities[1] = MaxPerKind
    /\ resp.input[1] = "cardio"
    /\ resp.out.count = Num(5)
    /\ Len(resp.out.list) = 5

\* C4: getUserBookings called with an empty clerkId, whatever the type, returns the
\* error 'User not authenticated' with count 0 and an empty list, sends no query to
\* the content store and throws nothing.
C4_NoClerkIdIsAuthenticationError ==
    (resp.tool = "getUserBookings" /\ resp.input[2] = NoUser)
    => /\ resp.out.kind = "return"
       /\ resp.out.error = Str(<<"User not authenticated">>)
       /\ resp.out.count = Num(0)
       /\ resp.out.list = <<>>
       /\ resp.out.fetched = <<>>

C4_Witness ==
    /\ resp.tool = "getUserBookings"
    /\ resp.input = <<"all", NoUser>>
    /\ resp.out.error.t = "string"
    /\ store.bookings[1] = MaxPerKind

FilteredVenueSearch ==
    resp.tool = "searchVenues" /\ (Truthy(resp.input[1]) \/ Truthy(resp.input[2]))

HeaderValue(response, key) ==
    IF \E i \in 1..Len(response.headers) : response.headers[i].key = key
    THEN response.headers[
             CHOOSE i \in 1..Len(response.headers) : response.headers[i].key = key].value
    ELSE ""

StrictReferrerPolicies ==
    {"no-referrer", "same-origin", "strict-origin", "strict-origin-when-cross-origin"}

EmptyAllowlists == {i \in 1..Len(PermissionsPolicy) : PermissionsPolicy[i].allowlist = "()"}

\* what the claim says of every header but X-Frame-Options
SecurityHeadersBesidesFraming(response) ==
    /\ HeaderValue(response, "X-Content-Type-Options") = "nosniff"
    /\ HeaderValue(response, "Referrer-Policy") \in StrictReferrerPolicies
    /\ HeaderValue(response, "Permissions-Policy") = PermissionsPolicyValue
    /\ 2 * Cardinality(EmptyAllowlists) > Len(PermissionsPolicy)

\* C8 as stated: every route is served the same headers, with X-Content-Type-Options
\* 'nosniff', X-Frame-Options 'DENY', a strict Referrer-Policy and a
\* Permissions-Policy that gives most of its capabilities an empty allowlist.
C8_FramingDenied ==
    served.t = "response"
    => /\ served.headers = HeadersFor(headers, <<>>)
       /\ SecurityHeadersBesidesFraming(served)
       /\ HeaderValue(served, "X-Frame-Options") = "DENY"

\* C8 amended: as stated, but X-Frame-Options is 'SAMEORIGIN': framing is allowed to
\* the site's own origin and denied to every other.
C8_FramingSameOrigin ==
    served.t = "response"
    => /\ served.headers = HeadersFor(headers, <<>>)
       /\ SecurityHeadersBesidesFraming(served)
       /\ HeaderValue(served, "X-Frame-Options") = "SAMEORIGIN"

C8_Witness ==
    /\ served.t = "response"
    /\ Len(served.path) = MaxPathDepth
    /\ HeaderValue(served, "X-Frame-Options") = "SAMEORIGIN"
    /\ Len(served.headers) = 7

(***************************************************************************)
(* Claims about tiers, categories and availability                         *)
(***************************************************************************)
\* the order basic < performance < champion; any other value is above them all
TierRank(tier) ==
    CASE tier = "basic" -> 1
      [] tier = "performance" -> 2
      [] tier = "champion" -> 3
      [] OTHER -> 4

RecommendationsReturned == ToolReturned /\ resp.tool = "getRecommendations"

\* C11: for every fitnessGoal and preferredDuration, getRecommendations given a
\* tierLevel returns no activity of a tier above it in basic < performance <
\* champion, also when no activity is of the goal's categories and the tool falls
\* back to the activities of the query.
C11_RecommendationsWithinTier ==
    (RecommendationsReturned /\ resp.input[3] # NoTier)
    => \A i \in 1..Len(resp.out.list) :
           TierRank(resp.out.list[i].tierLevel) <= TierRank(resp.input[3])

\* the fallback: a basic user with the goal strength, a store whose only activity of
\* the goal's categories is a champion one, and recommendations outside the goal
C11_Witness ==
    /\ RecommendationsReturned
    /\ resp.input[1] = "strength"
    /\ resp.input[3] = "basic"
    /\ store.activities[2] > 0
    /\ Len(resp.out.list) > 0
    /\ resp.out.list[1].category = NoCategory
    /\ resp.out.list[1].tierLevel = "basic"

\* the activities of the store that match every filter given to searchClasses, the
\* category among them, in name order
MatchingActivities(query, category, instructor, tierLevel) ==
    LET matchesAll(a) ==
            /\ a.doc.scheduledUpcoming > 0
            /\ Truthy(query) => (Match(a.doc.name, query) \/ Match(a.doc.instructor, query))
            /\ Truthy(instructor) => Match(a.doc.instructor, instructor)
            /\ tierLevel # NoTier => a.doc.tierLevel = tierLevel
            /\ Truthy(category) =>
                   /\ a.doc.category.t = "object"
                   /\ includes(toLowerCase(a.doc.category.name.s), toLowerCase(category.s))
    IN  SelectSeq(Docs(ActivityKinds, store.activities), matchesAll)

CategorySearchReturned ==
    ToolReturned /\ resp.tool = "searchClasses" /\ Truthy(resp.input[2])

\* C12: searchClasses given a category returns the activities with upcoming
\* scheduled sessions that match all the filters given (query, instructor, tierLevel,
\* and the category as a case-insensitive substring of the category name), the first
\* 10 of them in name order; so the list is not empty when the store holds one.
C12_CategorySearchReturnsMatches ==
    CategorySearchReturned
    => LET matching == MatchingActivities(resp.input[1], resp.input[2], resp.input[3],
                                          resp.input[4])
           first == Slice(matching, SearchClassesLimit)
       IN  /\ resp.out.list = [i \in 1..Len(first) |-> ActivityProjection(first[i])]
           /\ Len(matching) > 0 => Len(resp.out.list) > 0

\* a search for "yoga" that comes back empty from a store whose yoga class sorts
\* after more than ten other classes
CategorySearchMissesMatch ==
    /\ CategorySearchReturned
    /\ resp.input = <<Undef, Str(<<"y", "o", "g", "a">>), Undef, NoTier>>
    /\ store.activities = <<SearchClassesLimit + 1, 0, 1, 0, 0>>
    /\ resp.out.count = Num(0)
    /\ resp.out.list = <<>>

\* the classSession document a returned session was made from
SessionDoc(session) == SessionKinds[session.id[1]]

\* a stored capacity or booking count with null read as 0
OrZero(v) == IF v.t = "number" THEN v.n ELSE 0

SessionsReturned == ToolReturned /\ resp.tool = "getClassSessions"

\* C13: every session getClassSessions returns has spotsAvailable equal to
\* max(0, maxCapacity - currentBookings), a null maxCapacity read as 0 and
\* currentBookings the number of the session's confirmed bookings; it is never
\* negative, never more than the capacity, and 0 when the confirmed bookings meet
\* or exceed the capacity.
C13_SpotsAvailable ==
    SessionsReturned
    => \A i \in 1..Len(resp.out.list) :
          LET spots == resp.out.list[i].spotsAvailable
              capacity == OrZero(SessionDoc(resp.out.list[i]).maxCapacity)
              bookings == SessionDoc(resp.out.list[i]).confirmed
          IN  /\ spots = (IF capacity - bookings > 0 THEN capacity - bookings ELSE 0)
              /\ spots >= 0
              /\ spots <= capacity
              /\ bookings >= capacity => spots = 0

\* one response with an overbooked session, a full one and one without a capacity
C13_Witness ==
    /\ SessionsReturned
    /\ \E i, j, k \in 1..Len(resp.out.list) :
          /\ SessionDoc(resp.out.list[i]).confirmed
                > OrZero(SessionDoc(resp.out.list[i]).maxCapacity)
          /\ SessionDoc(resp.out.list[i]).maxCapacity # Null
          /\ SessionDoc(resp.out.list[j]).confirmed
                = OrZero(SessionDoc(resp.out.list[j]).maxCapacity)
          /\ SessionDoc(resp.out.list[k]).maxCapacity = Null
          /\ resp.out.list[i].spotsAvailable = 0
          /\ resp.out.list[j].spotsAvailable = 0
          /\ resp.out.list[k].spotsAvailable = 0

\* a session with spots left
SessionWithSpotsLeft ==
    /\ SessionsReturned
    /\ \E i \in 1..Len(resp.out.list) : resp.out.list[i].spotsAvailable = 2

=============================================================================
